---- MODULE Spec2Model ----
(***************************************************************************)
(* Model of src/modules/list_pl.py: list_prefix_lists(ec2_client,          *)
(* account_id, pl_filter, pl_exclude).                                     *)
(*                                                                         *)
(* Strings are sequences of code points, so that str.lower(), the `in`     *)
(* substring test and the ordering used by sorted() are computed and not   *)
(* assumed.  Python's None is the reserved value None below, which is not  *)
(* a string.  A dict with optional keys (a prefix-list record, the API     *)
(* response) is a TLA+ record whose DOMAIN holds the keys that are         *)
(* present.  pl_details, a dict, is the sequence of its (key, value)       *)
(* items in insertion order (CPython >= 3.7 dict semantics).  log holds    *)
(* the lines the invocation in progress has handed to logging; repeated    *)
(* tells a first invocation from a later one with the same arguments, and  *)
(* prev is the mapping the invocation before it returned.                  *)
(***************************************************************************)
EXTENDS Integers, Sequences, FiniteSets, TLC

\* ------------------------------------------------------------ bounds
MaxRecs == 3

\* ------------------------------------------------------------ strings
None == <<-1>>
NA == <<78, 47, 65>>

sA == <<65>>
sa == <<97>>
sB == <<66>>
saB == <<97, 66>>
id1 == <<49>>
id2 == <<50>>
EmptyStr == <<>>

LowerChar(c) == IF c \in 65..90 THEN c + 32 ELSE c

StrLower(s) == [k \in 1..Len(s) |-> LowerChar(s[k])]

Contains(needle, hay) ==
  \E st \in 0..(Len(hay) - Len(needle)) :
    \A k \in 1..Len(needle) : hay[st + k] = needle[k]

StrLess(a, b) ==
  \/ /\ Len(a) < Len(b)
     /\ \A k \in 1..Len(a) : a[k] = b[k]
  \/ \E k \in 1..Len(a) :
       /\ k <= Len(b)
       /\ \A m \in 1..(k - 1) : a[m] = b[m]
       /\ a[k] < b[k]

StrLeq(a, b) == a = b \/ StrLess(a, b)

\* `is not None` in place of truthiness
TruthyNotNone(v) == v # None

Truthy(v) == v # None /\ v # EmptyStr

Get(d, key, default) == IF key \in DOMAIN d THEN d[key] ELSE default

\* ------------------------------------------------------------ inputs
Pool ==
  { [PrefixListName |-> sa, OwnerId |-> sa],
    [PrefixListId |-> EmptyStr, PrefixListName |-> sa, OwnerId |-> sa],
    [PrefixListId |-> id1, PrefixListName |-> sa, OwnerId |-> sa],
    [PrefixListId |-> id1, PrefixListName |-> sB, OwnerId |-> sa],
    [PrefixListId |-> id1],
    [PrefixListId |-> id2, PrefixListName |-> sA, OwnerId |-> sa],
    [PrefixListId |-> id2, PrefixListName |-> sa, OwnerId |-> sA],
    [PrefixListId |-> id2, PrefixListName |-> saB] }

RecordLists == UNION { [1..n -> Pool] : n \in 0..MaxRecs }

EmptyDict == [k \in {} |-> k]

Responses == {EmptyDict} \cup { [PrefixLists |-> s] : s \in RecordLists }

Clients == { [fails |-> TRUE, response |-> EmptyDict] }
             \cup { [fails |-> FALSE, response |-> r] : r \in Responses }

AccountIds == {None, EmptyStr, sa}
Filters == {None, EmptyStr, sA}
Excludes == {None, EmptyStr, sB}

\* ------------------------------------------------------------ state
VARIABLES pc, repeated, ec2_client, account_id, pl_filter, pl_exclude,
          prefix_lists, i, pl_details, result, exc, log, prev

vars == <<pc, repeated, ec2_client, account_id, pl_filter, pl_exclude,
          prefix_lists, i, pl_details, result, exc, log, prev>>

args == <<ec2_client, account_id, pl_filter, pl_exclude>>

\* ------------------------------------------------------------ dict
HasKey(d, k) == \E p \in 1..Len(d) : d[p][1] = k

\* setdefault: an existing key keeps its value
DictSetKeepFirst(d, k, v) ==
  IF HasKey(d, k) THEN d ELSE Append(d, <<k, v>>)

\* a list of pairs: every store appends
DictSetAlwaysAppend(d, k, v) == Append(d, <<k, v>>)

\* delete and re-insert: an overwritten key moves to the end
DictSetMoveToEnd(d, k, v) ==
  Append(SelectSeq(d, LAMBDA x : x[1] # k), <<k, v>>)

DictSet(d, k, v) ==
  IF HasKey(d, k)
  THEN [p \in 1..Len(d) |-> IF d[p][1] = k THEN <<k, v>> ELSE d[p]]
  ELSE Append(d, <<k, v>>)

RECURSIVE DictFromItems(_)
DictFromItems(items) ==
  IF items = <<>> THEN <<>>
  ELSE LET n == Len(items)
       IN DictSet(DictFromItems(SubSeq(items, 1, n - 1)), items[n][1], items[n][2])

\* ------------------------------------------------------------ sorted()
\* key=lambda x: x[1], without lower()
SortKeyRaw(x) == x[2]

SortKey(x) == StrLower(x[2])

\* Insert x after every element whose key is <= key(x): a stable sort.
RECURSIVE InsertSorted(_, _)
InsertSorted(s, x) ==
  IF s = <<>> THEN <<x>>
  ELSE IF StrLess(SortKey(x), SortKey(s[Len(s)]))
       THEN Append(InsertSorted(SubSeq(s, 1, Len(s) - 1), x), s[Len(s)])
       ELSE Append(s, x)

RECURSIVE Sorted(_)
Sorted(items) ==
  IF items = <<>> THEN <<>>
  ELSE InsertSorted(Sorted(SubSeq(items, 1, Len(items) - 1)), items[Len(items)])

\* ------------------------------------------------------------ loop body
PlId(pl) == Get(pl, "PrefixListId", None)

\* pl.get("PrefixListName") without the default
PlNameNoDefault(pl) == Get(pl, "PrefixListName", None)

PlName(pl) == Get(pl, "PrefixListName", NA)

\* a record without OwnerId is let through
OwnerMismatchIgnoreMissing(pl) ==
  Truthy(account_id) /\ "OwnerId" \in DOMAIN pl /\ pl.OwnerId # account_id

OwnerMismatch(pl) == Truthy(account_id) /\ Get(pl, "OwnerId", None) # account_id

\* pl_filter compared without lower()
IncludeRejectsNoLower(name) ==
  Truthy(pl_filter) /\ ~Contains(pl_filter, StrLower(name))

IncludeRejects(name) ==
  Truthy(pl_filter) /\ ~Contains(StrLower(pl_filter), StrLower(name))

ExcludeRejects(name) ==
  Truthy(pl_exclude) /\ Contains(StrLower(pl_exclude), StrLower(name))

\* "continue", "store", or "raise" (str.lower() called on a non-string)
Outcome(pl) ==
  IF ~Truthy(PlId(pl)) THEN "continue"
  ELSE IF OwnerMismatch(pl) THEN "continue"
  ELSE IF Truthy(pl_filter) /\ PlName(pl) = None THEN "raise"
  ELSE IF IncludeRejects(PlName(pl)) THEN "continue"
  ELSE IF Truthy(pl_exclude) /\ PlName(pl) = None THEN "raise"
  ELSE IF ExcludeRejects(PlName(pl)) THEN "continue"
  ELSE "store"

\* ------------------------------------------------------------ actions
Init ==
  /\ pc = "idle"
  /\ repeated = FALSE
  /\ ec2_client = [fails |-> FALSE, response |-> EmptyDict]
  /\ account_id = None
  /\ pl_filter = None
  /\ pl_exclude = None
  /\ prefix_lists = <<>>
  /\ i = 1
  /\ pl_details = <<>>
  /\ result = <<>>
  /\ exc = "none"
  /\ log = <<>>
  /\ prev = <<>>

\* line 23, first invocation: the caller chooses the arguments
Call ==
  /\ pc = "idle"
  /\ \E c \in Clients, a \in AccountIds, f \in Filters, e \in Excludes :
       /\ ec2_client' = c
       /\ account_id' = a
       /\ pl_filter' = f
       /\ pl_exclude' = e
  /\ log' = <<"INFO">>
  /\ pc' = "fetch"
  /\ UNCHANGED <<repeated, prefix_lists, i, pl_details, result, exc, prev>>

\* line 23, a further invocation with the same arguments
CallAgain ==
  /\ pc = "done"
  /\ repeated' = TRUE
  /\ prev' = result
  /\ log' = <<"INFO">>
  /\ pc' = "fetch"
  /\ UNCHANGED <<args, prefix_lists, i, pl_details, result, exc>>

\* lines 24-26
Fetch ==
  /\ pc = "fetch"
  /\ ~ec2_client.fails
  /\ prefix_lists' = Get(ec2_client.response, "PrefixLists", <<>>)
  /\ pl_details' = <<>>
  /\ i' = 1
  /\ pc' = "loop"
  /\ UNCHANGED <<args, repeated, result, exc, log, prev>>

\* line 24: describe_managed_prefix_lists() raises, the exception propagates
FetchRaises ==
  /\ pc = "fetch"
  /\ ec2_client.fails
  /\ exc' = "ClientError"
  /\ pc' = "raised"
  /\ UNCHANGED <<args, repeated, prefix_lists, i, pl_details, result, log, prev>>

\* lines 27-38, one iteration
LoopStep ==
  /\ pc = "loop"
  /\ i <= Len(prefix_lists)
  /\ LET pl == prefix_lists[i]
         o == Outcome(pl)
     IN /\ pl_details' = IF o = "store"
                         THEN DictSet(pl_details, PlId(pl), PlName(pl))
                         ELSE pl_details
        /\ pc' = IF o = "raise" THEN "raised" ELSE "loop"
        /\ exc' = IF o = "raise" THEN "AttributeError" ELSE exc
  /\ i' = i + 1
  /\ UNCHANGED <<args, repeated, prefix_lists, result, log, prev>>

\* the empty result returned without the error line
EmptyReturnNoLog ==
  /\ pc = "loop"
  /\ i > Len(prefix_lists)
  /\ pl_details = <<>>
  /\ result' = <<>>
  /\ pc' = "done"
  /\ UNCHANGED <<args, repeated, prefix_lists, i, pl_details, exc, log, prev>>

\* lines 40-42
EmptyReturn ==
  /\ pc = "loop"
  /\ i > Len(prefix_lists)
  /\ pl_details = <<>>
  /\ log' = Append(log, "ERROR")
  /\ result' = <<>>
  /\ pc' = "done"
  /\ UNCHANGED <<args, repeated, prefix_lists, i, pl_details, exc, prev>>

\* the items of pl_details reach sorted() in an arbitrary (hash) order
SortAndReturnHashOrder ==
  /\ pc = "loop"
  /\ i > Len(prefix_lists)
  /\ pl_details # <<>>
  /\ \E f \in [1..Len(pl_details) -> 1..Len(pl_details)] :
       /\ \A a, b \in 1..Len(pl_details) : f[a] = f[b] => a = b
       /\ result' = DictFromItems(Sorted([p \in 1..Len(pl_details) |-> pl_details[f[p]]]))
  /\ pc' = "done"
  /\ UNCHANGED <<args, repeated, prefix_lists, i, pl_details, exc, log, prev>>

\* lines 44-48
SortAndReturn ==
  /\ pc = "loop"
  /\ i > Len(prefix_lists)
  /\ pl_details # <<>>
  /\ IF \E p \in 1..Len(pl_details) : pl_details[p][2] = None
     THEN /\ pc' = "raised"
          /\ exc' = "AttributeError"
          /\ result' = result
     ELSE /\ pc' = "done"
          /\ exc' = exc
          /\ result' = DictFromItems(Sorted(pl_details))
  /\ UNCHANGED <<args, repeated, prefix_lists, i, pl_details, log, prev>>

Next ==
  \/ Call
  \/ CallAgain
  \/ Fetch
  \/ FetchRaises
  \/ LoopStep
  \/ EmptyReturn
  \/ SortAndReturn

Spec == Init /\ [][Next]_vars

\* ------------------------------------------------------------ vocabulary of the claims
\* The acceptance condition as the specification words it, over the k-th
\* input record of the invocation in progress.
Rec(k) == prefix_lists[k]

NumRecs == Len(prefix_lists)

HasNonEmptyId(k) == "PrefixListId" \in DOMAIN Rec(k) /\ Rec(k).PrefixListId # EmptyStr

NameOrNA(k) ==
  IF "PrefixListName" \in DOMAIN Rec(k) THEN Rec(k).PrefixListName ELSE NA

Given(v) == ~(v = None \/ v = EmptyStr)

NoAccountFilter == ~Given(account_id)

OwnerOk(k) ==
  NoAccountFilter \/ ("OwnerId" \in DOMAIN Rec(k) /\ Rec(k).OwnerId = account_id)

IncludeOkFor(name) ==
  pl_filter = None \/ pl_filter = EmptyStr
    \/ Contains(StrLower(pl_filter), StrLower(name))

ExcludeOkFor(name) ==
  pl_exclude = None \/ pl_exclude = EmptyStr
    \/ ~Contains(StrLower(pl_exclude), StrLower(name))

Passes(k) ==
  /\ HasNonEmptyId(k)
  /\ OwnerOk(k)
  /\ IncludeOkFor(NameOrNA(k))
  /\ ExcludeOkFor(NameOrNA(k))

PassesWithId(k, id) == Passes(k) /\ Rec(k).PrefixListId = id

LastPassingWithId(k, id) ==
  PassesWithId(k, id) /\ \A m \in (k + 1)..NumRecs : ~PassesWithId(m, id)

FirstAcceptedBefore(a, b) ==
  \E k \in 1..NumRecs :
    PassesWithId(k, a) /\ \A m \in 1..k : ~PassesWithId(m, b)

Returned == pc = "done"

InResult(id, name) == \E p \in 1..Len(result) : result[p] = <<id, name>>

IsKey(id) == \E p \in 1..Len(result) : result[p][1] = id

Appears(k) == HasNonEmptyId(k) /\ InResult(Rec(k).PrefixListId, NameOrNA(k))

DistinctIds ==
  \A j, k \in 1..NumRecs :
    (j # k /\ HasNonEmptyId(j) /\ HasNonEmptyId(k))
      => Rec(j).PrefixListId # Rec(k).PrefixListId

CountLog(level) == Cardinality({p \in 1..Len(log) : log[p] = level})

\* ------------------------------------------------------------ claims

\* C1 as stated: a record appears in the result (its id is a key mapped to
\* its own name, "N/A" for an absent name) if and only if it has a
\* non-empty id and passes the owner, include and exclude filters, also
\* when several records share an id.
C1_FilterCorrectness_AsStated ==
  Returned => \A k \in 1..NumRecs : Appears(k) <=> Passes(k)

\* C1 (amended): a record appears in the result iff it has a non-empty id
\* and the last record in input order with that id that passes all filters
\* carries the same name; when the non-empty ids of the input are pairwise
\* distinct this is: iff the record itself passes all filters.
C1_FilterCorrectness ==
  Returned =>
    /\ \A k \in 1..NumRecs :
         Appears(k) <=>
           /\ HasNonEmptyId(k)
           /\ \E j \in 1..NumRecs :
                /\ LastPassingWithId(j, Rec(k).PrefixListId)
                /\ NameOrNA(j) = NameOrNA(k)
    /\ DistinctIds => \A k \in 1..NumRecs : Appears(k) <=> Passes(k)

C1_Witness ==
  /\ Returned
  /\ Given(pl_filter)
  /\ \E j, k \in 1..NumRecs :
       /\ j < k
       /\ Passes(j) /\ Passes(k)
       /\ Rec(j).PrefixListId = Rec(k).PrefixListId
       /\ NameOrNA(j) # NameOrNA(k)
  /\ \E k \in 1..NumRecs : HasNonEmptyId(k) /\ ~Passes(k)

\* C2: the entries of a returned mapping are in non-decreasing order of
\* their lowercased names, whatever the order in which the filtering pass
\* accepted them.
C2_SortOrder ==
  Returned =>
    \A p, q \in 1..Len(result) :
      p < q => StrLeq(StrLower(result[p][2]), StrLower(result[q][2]))

C2_Witness ==
  /\ Returned
  /\ Len(result) >= 2
  /\ result # pl_details
  /\ \E p, q \in 1..Len(result) : p < q /\ StrLess(result[q][2], result[p][2])

\* C3: an id shared by several records has at most one entry, named after
\* the last record with that id that passed the filters; later records with
\* that id that fail a filter do not remove or change it.
C3_DedupById ==
  Returned =>
    \A k \in 1..NumRecs :
      HasNonEmptyId(k) =>
        /\ Cardinality({p \in 1..Len(result) : result[p][1] = Rec(k).PrefixListId}) <= 1
        /\ \A j \in 1..NumRecs :
             LastPassingWithId(j, Rec(k).PrefixListId)
               => InResult(Rec(k).PrefixListId, NameOrNA(j))

C3_Witness ==
  /\ Returned
  /\ \E j, k, l \in 1..NumRecs :
       /\ j < k /\ k < l
       /\ Passes(j) /\ Passes(k)
       /\ HasNonEmptyId(l) /\ ~Passes(l)
       /\ Rec(j).PrefixListId = Rec(k).PrefixListId
       /\ Rec(l).PrefixListId = Rec(k).PrefixListId
       /\ NameOrNA(j) # NameOrNA(k)
       /\ NameOrNA(l) # NameOrNA(k)
       /\ InResult(Rec(k).PrefixListId, NameOrNA(k))

\* C4: when no record passes the filters the function returns the empty
\* mapping normally and raises nothing; a returned mapping is empty only
\* when no record passes.
C4_EmptyOnNoMatch ==
  /\ (pc = "raised" /\ exc # "ClientError") => \E k \in 1..NumRecs : Passes(k)
  /\ Returned => (result = <<>> <=> ~\E k \in 1..NumRecs : Passes(k))

C4_Witness ==
  /\ Returned
  /\ result = <<>>
  /\ \E k \in 1..NumRecs : HasNonEmptyId(k) /\ OwnerOk(k)
  /\ \E k \in 1..NumRecs : ~HasNonEmptyId(k)

\* C5: every key of the returned mapping is a non-empty id of some input
\* record, no key occurs twice, and there are as many entries as distinct
\* ids of accepted records.
C5_ResultKeys ==
  Returned =>
    /\ \A p \in 1..Len(result) :
         /\ result[p][1] # EmptyStr /\ result[p][1] # None
         /\ \E k \in 1..NumRecs :
              HasNonEmptyId(k) /\ Rec(k).PrefixListId = result[p][1]
    /\ \A p, q \in 1..Len(result) : result[p][1] = result[q][1] => p = q
    /\ Len(result) =
         Cardinality({Rec(k).PrefixListId : k \in {m \in 1..NumRecs : Passes(m)}})

C5_Witness ==
  /\ Returned
  /\ result # <<>>
  /\ \E j, k \in 1..NumRecs :
       j # k /\ Passes(j) /\ Passes(k) /\ Rec(j).PrefixListId = Rec(k).PrefixListId
  /\ \E k \in 1..NumRecs :
       "PrefixListId" \in DOMAIN Rec(k) /\ Rec(k).PrefixListId = EmptyStr

C7_NeverRaises ==
  /\ pc = "raised" => (exc = "ClientError" /\ ec2_client.fails)
  /\ pc = "loop" =>
       /\ i <= NumRecs + 1
       /\ \A p \in 1..Len(pl_details) : pl_details[p][2] # None
  /\ Returned =>
       /\ \A k \in 1..NumRecs :
            ( /\ HasNonEmptyId(k)
              /\ "PrefixListName" \notin DOMAIN Rec(k)
              /\ \A m \in (k + 1)..NumRecs :
                   ~(HasNonEmptyId(m) /\ Rec(m).PrefixListId = Rec(k).PrefixListId) )
            => ( InResult(Rec(k).PrefixListId, NA)
                   <=> (OwnerOk(k) /\ IncludeOkFor(NA) /\ ExcludeOkFor(NA)) )
       /\ \A p, q \in 1..Len(result) :
            (result[p][2] = NA /\ StrLess(StrLower(result[q][2]), StrLower(NA)))
              => q < p

C7_Witness ==
  /\ Returned
  /\ Given(pl_filter)
  /\ \E k \in 1..NumRecs :
       /\ HasNonEmptyId(k)
       /\ DOMAIN Rec(k) = {"PrefixListId"}
       /\ InResult(Rec(k).PrefixListId, NA)
  /\ \E p, q \in 1..Len(result) : p < q /\ result[q][2] = NA

C9_Logging ==
  pc # "idle" =>
    /\ CountLog("INFO") = 1
    /\ log[1] = "INFO"
    /\ pc = "fetch" => log = <<"INFO">>
    /\ CountLog("ERROR") = IF Returned /\ result = <<>> THEN 1 ELSE 0
    /\ (pc = "loop" /\ i <= NumRecs) => CountLog("ERROR") = 0
    /\ Len(log) = CountLog("INFO") + CountLog("ERROR")

C9_Witness ==
  /\ Returned
  /\ result = <<>>
  /\ NumRecs >= 1
  /\ \E k \in 1..NumRecs : HasNonEmptyId(k)
  /\ log = <<"INFO", "ERROR">>

\* C10: two entries whose names are equal case-insensitively appear in the
\* order in which their ids were first accepted; a later accepted record
\* that overwrites the name of an id does not move that id.
C10_TieOrder ==
  Returned =>
    \A p, q \in 1..Len(result) :
      (p < q /\ StrLower(result[p][2]) = StrLower(result[q][2]))
        => FirstAcceptedBefore(result[p][1], result[q][1])

C10_Witness ==
  /\ Returned
  /\ \E p, q \in 1..Len(result) :
       /\ p < q
       /\ StrLower(result[p][2]) = StrLower(result[q][2])
       /\ \E j, k, l \in 1..NumRecs :
            /\ j < k /\ k < l
            /\ PassesWithId(j, result[p][1])
            /\ PassesWithId(k, result[q][1])
            /\ PassesWithId(l, result[p][1])
            /\ NameOrNA(j) # NameOrNA(l)
====
